---- MODULE Spec2Model ----
(***************************************************************************)
(* Model of the Streamlit script src/m.py: the login / context page (a     *)
(* gate kept in st.session_state) and the IFC analysis page (element       *)
(* collection, percentages, severity, proxy tracing, Pset_WallCommon       *)
(* check).  One action is one run of the script, triggered by one user     *)
(* interaction.                                                            *)
(***************************************************************************)
EXTENDS Integers, Sequences, FiniteSets, TLC

\* ---------------------------------------------------------------------
\* Bounds of the explored inputs
\* ---------------------------------------------------------------------
\* longest model built from the full element universe
MaxElems == 2
\* longest model built from plain IfcWall elements only
MaxWalls == 3
\* largest model built from proxies and slabs only (ratios proxies/total)
MaxBulk == 20

\* ---------------------------------------------------------------------
\* Login / context page (src/m.py:20-80)
\* ---------------------------------------------------------------------
Placeholder == "Select an option"

\* values the user types or selects; the selectbox choices are a subset of
\* the option lists of src/m.py:26-61, the placeholder included
NameInputs == {"", "Ana"}
RoleOptions == {Placeholder, "Architect"}
DomainOptions == {Placeholder, "Structural"}
PurposeOptions == {Placeholder, "Compliance"}

\* st.session_state.user_context = {}
EmptyContext == [k \in {} |-> ""]

\* value of a local variable that the last run of the script did not assign
Unbound == "unbound"

VARIABLES
    logged_in,          \* st.session_state.logged_in
    user_context,       \* st.session_state.user_context
    name,               \* text_input "Your name (optional)"
    role,               \* selectbox "Your role"
    domain,             \* selectbox "Project domain"
    purpose,            \* selectbox "Purpose of IFC"
    error,              \* TRUE iff the last run showed "Please select all fields."
    event,              \* the user interaction that triggered the last run
    page,               \* where the last run ended: "login" (st.stop) or "analyzer"
    uploaded_file,      \* <<>> (None) or <<m>>, m the uploaded IFC model
    walls, standard_walls, doors, windows, proxies, all_elements,
    total_elements, total_walls, semantic_elements, proxy_elements,
    other_semantic, semantic_pct, proxy_pct, other_pct,
    severity, proxy_data, walls_missing_pset, missing_pset_count, pset_data

loginVars == <<logged_in, user_context, name, role, domain, purpose, error>>
analysisVars == <<walls, standard_walls, doors, windows, proxies, all_elements,
                  total_elements, total_walls, semantic_elements, proxy_elements,
                  other_semantic, semantic_pct, proxy_pct, other_pct,
                  severity, proxy_data, walls_missing_pset, missing_pset_count,
                  pset_data>>
vars == <<loginVars, event, page, uploaded_file, analysisVars>>

\* ---------------------------------------------------------------------
\* IFC model as ifcopenshell presents it (src/m.py:103-114, 172-176, 188-196)
\* ---------------------------------------------------------------------
\* An uploaded model m is the sequence of its entities.  An entity is
\* [type, Name, IsDefinedBy]; it is identified by its position in m, which
\* also stands for its GlobalId (GlobalIds are unique per entity).
\* An optional attribute is <<>> when absent (None) and <<v>> when set.

\* direct supertype in the IFC schema (intermediate abstract classes of the
\* building elements are folded into IfcBuildingElement); "" above IfcRoot
Supertype(t) ==
    CASE t = "IfcWallStandardCase" -> "IfcWall"
      [] t \in {"IfcWall", "IfcDoor", "IfcWindow", "IfcSlab",
                "IfcBuildingElementProxy"} -> "IfcBuildingElement"
      [] t = "IfcBuildingElement" -> "IfcProduct"
      [] t \in {"IfcProduct", "IfcProject"} -> "IfcRoot"
      [] OTHER -> ""

RECURSIVE is_a(_, _)
\* entity.is_a(q): the entity's class is q or a subtype of q
is_a(t, q) ==
    IF t = q THEN TRUE
    ELSE IF t = "" THEN FALSE
    ELSE is_a(Supertype(t), q)

\* relationship records met in wall.IsDefinedBy
RelWallCommon ==
    [is_a |-> "IfcRelDefinesByProperties",
     RelatingPropertyDefinition |->
        <<[is_a |-> "IfcPropertySet", Name |-> "Pset_WallCommon"]>>]
RelLowerCase ==
    [is_a |-> "IfcRelDefinesByProperties",
     RelatingPropertyDefinition |->
        <<[is_a |-> "IfcPropertySet", Name |-> "pset_wallcommon"]>>]
RelQuantities ==
    [is_a |-> "IfcRelDefinesByProperties",
     RelatingPropertyDefinition |->
        <<[is_a |-> "IfcElementQuantity", Name |-> "Qto_WallBaseQuantities"]>>]
RelNoDefinition ==
    [is_a |-> "IfcRelDefinesByProperties", RelatingPropertyDefinition |-> <<>>]
RelType ==
    [is_a |-> "IfcRelDefinesByType", RelatingPropertyDefinition |-> <<>>]

\* the IsDefinedBy collections given to walls
DefLists ==
    { <<>>,
      <<RelWallCommon>>,
      <<RelLowerCase, RelQuantities>>,
      <<RelType, RelWallCommon, RelNoDefinition>> }

\* Name attribute: None, blank, or a text
NameValues == { <<>>, <<"">>, <<"Wall-A">> }

WallElements ==
    [type : {"IfcWall"}, Name : NameValues, IsDefinedBy : DefLists]
StandardWallElements ==
    [type : {"IfcWallStandardCase"}, Name : NameValues, IsDefinedBy : DefLists]
ProxyElements ==
    [type : {"IfcBuildingElementProxy"}, Name : NameValues, IsDefinedBy : {<<>>}]
\* entities whose Name and IsDefinedBy the script never reads; IfcProject is
\* in every file and is not an IfcProduct
PlainElements ==
    [type : {"IfcDoor", "IfcWindow", "IfcSlab", "IfcProject"},
     Name : {<<>>}, IsDefinedBy : {<<>>}]
Elements ==
    WallElements \cup StandardWallElements \cup ProxyElements \cup PlainElements

SeqsUpTo(S, n) == UNION { [1..k -> S] : k \in 0..n }

BulkProxy == [type |-> "IfcBuildingElementProxy", Name |-> <<>>, IsDefinedBy |-> <<>>]
BulkSlab == [type |-> "IfcSlab", Name |-> <<>>, IsDefinedBy |-> <<>>]
\* p proxies followed by t - p slabs
BulkModel(p, t) == [i \in 1..t |-> IF i <= p THEN BulkProxy ELSE BulkSlab]

\* the models a user uploads
Models ==
    SeqsUpTo(Elements, MaxElems)
    \cup SeqsUpTo(WallElements, MaxWalls)
    \cup UNION { { BulkModel(p, t) : p \in 0..t } : t \in 1..MaxBulk }

\* ---------------------------------------------------------------------
\* Element collection (src/m.py:109-114, 186)
\* ---------------------------------------------------------------------
RECURSIVE by_type_exact(_, _)
\* by_type that leaves the subtypes out
by_type_exact(m, q) ==
    IF m = <<>> THEN <<>>
    ELSE LET rest == by_type_exact(SubSeq(m, 1, Len(m) - 1), q)
         IN  IF m[Len(m)].type = q THEN Append(rest, Len(m)) ELSE rest

RECURSIVE by_type(_, _)
\* model.by_type(q): the entities of class q, subtypes included (the
\* default include_subtypes=True), each once, as positions in m
by_type(m, q) ==
    IF m = <<>> THEN <<>>
    ELSE LET rest == by_type(SubSeq(m, 1, Len(m) - 1), q)
         IN  IF is_a(m[Len(m)].type, q) THEN Append(rest, Len(m)) ELSE rest

Max(a, b) == IF a >= b THEN a ELSE b

\* ---------------------------------------------------------------------
\* Percentages (src/m.py:122-124)
\* ---------------------------------------------------------------------
\* A percentage is the exact fraction num / den, den > 0.  The script
\* computes (count / total) * 100 in double precision; for counts below
\* 1500 that double compares with 0, 10, 20 and 50 as the exact fraction
\* does (0.1 * 100 and 0.2 * 100 round to exactly 10.0 and 20.0).
PctEmptyIsFull(count, total) ==
    IF total # 0 THEN [num |-> count * 100, den |-> total]
    ELSE [num |-> 100, den |-> 1]

\* (count / total) * 100 if total else 0
Pct(count, total) ==
    IF total # 0 THEN [num |-> count * 100, den |-> total]
    ELSE [num |-> 0, den |-> 1]

\* pct <= k and pct < k for an integer k
PctLeq(pct, k) == pct.num <= k * pct.den
PctLt(pct, k) == pct.num < k * pct.den

\* ---------------------------------------------------------------------
\* Severity (src/m.py:151-162)
\* ---------------------------------------------------------------------
SeverityStrictLow(pct) ==
    IF PctLt(pct, 10) THEN "LOW"
    ELSE IF PctLt(pct, 20) THEN "MEDIUM"
    ELSE IF PctLt(pct, 50) THEN "HIGH"
    ELSE "CRITICAL"

Severity(pct) ==
    IF PctLeq(pct, 10) THEN "LOW"
    ELSE IF PctLt(pct, 20) THEN "MEDIUM"
    ELSE IF PctLt(pct, 50) THEN "HIGH"
    ELSE "CRITICAL"

\* ---------------------------------------------------------------------
\* Listings (src/m.py:170-179, 207-213)
\* ---------------------------------------------------------------------
DisplayNameNoneOnly(n) == IF n # <<>> THEN n[1] ELSE "Unnamed"

\* x.Name if x.Name else "Unnamed": None and "" are both falsy
DisplayName(n) == IF n # <<>> /\ n[1] # "" THEN n[1] ELSE "Unnamed"

\* one row of the proxy table per proxy, in the order of proxies
ProxyRows(m, ps) ==
    [i \in 1..Len(ps) |->
        [Name |-> DisplayName(m[ps[i]].Name),
         GlobalId |-> ps[i],
         IFCType |-> m[ps[i]].type,
         Issue |-> "Semantic meaning lost (generic proxy)"]]

\* one row of the missing-walls table per reported wall
PsetRows(m, ws) ==
    [i \in 1..Len(ws) |->
        [WallName |-> DisplayName(m[ws[i]].Name),
         GlobalId |-> ws[i],
         Issue |-> "Pset_WallCommon missing"]]

\* ---------------------------------------------------------------------
\* Walls missing Pset_WallCommon (src/m.py:186-200)
\* ---------------------------------------------------------------------
\* str.lower() on the names that occur
Lower(s) == IF s = "Pset_WallCommon" THEN "pset_wallcommon" ELSE s

MatchesIgnoringCase(definition) ==
    /\ definition.is_a = "IfcRelDefinesByProperties"
    /\ definition.RelatingPropertyDefinition # <<>>
    /\ definition.RelatingPropertyDefinition[1].is_a = "IfcPropertySet"
    /\ Lower(definition.RelatingPropertyDefinition[1].Name) = Lower("Pset_WallCommon")

\* the three nested conditions of the inner loop body
Matches(definition) ==
    /\ definition.is_a = "IfcRelDefinesByProperties"
    /\ definition.RelatingPropertyDefinition # <<>>
    /\ definition.RelatingPropertyDefinition[1].is_a = "IfcPropertySet"
    /\ definition.RelatingPropertyDefinition[1].Name = "Pset_WallCommon"

RECURSIVE HasPset(_)
\* has_pset after the loop over wall.IsDefinedBy (hasattr(wall,
\* "IsDefinedBy") holds for every IfcWall: it is an inverse attribute of
\* IfcObject)
HasPset(defs) ==
    IF defs = <<>> THEN FALSE
    ELSE IF Matches(Head(defs)) THEN TRUE
    ELSE HasPset(Tail(defs))

RECURSIVE MissingPsetPrepend(_, _)
\* the loop with the reported wall put in front of the list
MissingPsetPrepend(m, ws) ==
    IF ws = <<>> THEN <<>>
    ELSE LET rest == MissingPsetPrepend(m, SubSeq(ws, 1, Len(ws) - 1))
             wall == ws[Len(ws)]
         IN  IF ~HasPset(m[wall].IsDefinedBy) THEN <<wall>> \o rest ELSE rest

RECURSIVE MissingPset(_, _)
\* walls_missing_pset after the loop over walls_objects
MissingPset(m, ws) ==
    IF ws = <<>> THEN <<>>
    ELSE LET rest == MissingPset(m, SubSeq(ws, 1, Len(ws) - 1))
             wall == ws[Len(ws)]
         IN  IF ~HasPset(m[wall].IsDefinedBy) THEN Append(rest, wall) ELSE rest

\* ---------------------------------------------------------------------
\* Script runs: login page (src/m.py:9-80)
\* ---------------------------------------------------------------------
Init ==
    /\ logged_in = FALSE
    /\ user_context = EmptyContext
    /\ name = ""
    /\ role = Placeholder
    /\ domain = Placeholder
    /\ purpose = Placeholder
    /\ error = FALSE
    /\ event = "open"
    /\ page = "login"
    /\ uploaded_file = <<>>
    /\ walls = Unbound /\ standard_walls = Unbound /\ doors = Unbound
    /\ windows = Unbound /\ proxies = Unbound /\ all_elements = Unbound
    /\ total_elements = Unbound /\ total_walls = Unbound
    /\ semantic_elements = Unbound /\ proxy_elements = Unbound
    /\ other_semantic = Unbound /\ semantic_pct = Unbound
    /\ proxy_pct = Unbound /\ other_pct = Unbound
    /\ severity = Unbound /\ proxy_data = Unbound
    /\ walls_missing_pset = Unbound /\ missing_pset_count = Unbound
    /\ pset_data = Unbound

\* a run of the login page in which Continue is not pressed: the widgets
\* take their values and st.stop() ends the run
LoginRun(n, r, d, p) ==
    /\ ~logged_in
    /\ name' = n /\ role' = r /\ domain' = d /\ purpose' = p
    /\ error' = FALSE
    /\ event' = "edit"
    /\ page' = "login"
    /\ UNCHANGED <<logged_in, user_context, uploaded_file, analysisVars>>

\* the user edits one widget of the login page
EditName == \E n \in NameInputs : n # name /\ LoginRun(n, role, domain, purpose)
SelectRole == \E r \in RoleOptions : r # role /\ LoginRun(name, r, domain, purpose)
SelectDomain == \E d \in DomainOptions : d # domain /\ LoginRun(name, role, d, purpose)
SelectPurpose == \E p \in PurposeOptions : p # purpose /\ LoginRun(name, role, domain, p)

AllPlaceholders(r, d, p) ==
    r = Placeholder /\ d = Placeholder /\ p = Placeholder

\* the condition of the error branch
AnyPlaceholder(r, d, p) ==
    r = Placeholder \/ d = Placeholder \/ p = Placeholder

ContextSwapped(n, r, d, p) ==
    [name |-> n, role |-> r, domain |-> p, purpose |-> d]

\* the dictionary stored on an accepted press
NewContext(n, r, d, p) ==
    [name |-> n, role |-> r, domain |-> d, purpose |-> p]

\* the user presses Continue.  Rejected: the error is shown and st.stop()
\* ends the run.  Accepted: the context is stored, logged_in is set and
\* st.rerun() runs the script again, which now reaches the analyzer page
\* with no file uploaded.
Continue ==
    /\ ~logged_in
    /\ event' = "continue"
    /\ IF AnyPlaceholder(role, domain, purpose)
       THEN /\ error' = TRUE
            /\ page' = "login"
            /\ UNCHANGED <<logged_in, user_context>>
       ELSE /\ user_context' = NewContext(name, role, domain, purpose)
            /\ logged_in' = TRUE
            /\ error' = FALSE
            /\ page' = "analyzer"
    /\ UNCHANGED <<name, role, domain, purpose, uploaded_file, analysisVars>>

\* ---------------------------------------------------------------------
\* Script runs: analyzer page (src/m.py:86-214)
\* ---------------------------------------------------------------------
\* the part of the run under `if uploaded_file:` for the uploaded model m:
\* element collection, counts, percentages, severity, the two listings
Analyse(m) ==
    /\ uploaded_file' = <<m>>
    /\ LET w == by_type(m, "IfcWall")
           sw == by_type(m, "IfcWallStandardCase")
           dr == by_type(m, "IfcDoor")
           wn == by_type(m, "IfcWindow")
           px == by_type(m, "IfcBuildingElementProxy")
           al == by_type(m, "IfcProduct")
           total == Len(al)
           tw == Len(w) + Len(sw)
           sem == tw + Len(dr) + Len(wn)
           pe == Len(px)
           other == Max(total - sem - pe, 0)
           ppct == Pct(pe, total)
           walls_objects == by_type(m, "IfcWall")
           missing == MissingPset(m, walls_objects)
       IN  /\ walls' = w /\ standard_walls' = sw /\ doors' = dr
           /\ windows' = wn /\ proxies' = px /\ all_elements' = al
           /\ total_elements' = total
           /\ total_walls' = tw
           /\ semantic_elements' = sem
           /\ proxy_elements' = pe
           /\ other_semantic' = other
           /\ semantic_pct' = Pct(sem, total)
           /\ proxy_pct' = ppct
           /\ other_pct' = Pct(other, total)
           /\ severity' = Severity(ppct)
           /\ proxy_data' = IF px # <<>> THEN ProxyRows(m, px) ELSE <<>>
           /\ walls_missing_pset' = missing
           /\ missing_pset_count' = Len(missing)
           /\ pset_data' = IF Len(missing) = 0 THEN <<>> ELSE PsetRows(m, missing)

\* the user uploads a model: the whole page is computed from it.
\* Replacing an uploaded file is the removal followed by an upload; every
\* run computes the page from the uploaded file alone.
Upload ==
    /\ logged_in
    /\ uploaded_file = <<>>
    /\ event' = "upload"
    /\ page' = "analyzer"
    /\ \E m \in Models : Analyse(m)
    /\ UNCHANGED loginVars

\* the user removes the uploaded file: the run ends at `if uploaded_file:`
\* and binds none of the analysis variables
RemoveFile ==
    /\ logged_in
    /\ uploaded_file # <<>>
    /\ uploaded_file' = <<>>
    /\ event' = "remove"
    /\ page' = "analyzer"
    /\ walls' = Unbound /\ standard_walls' = Unbound /\ doors' = Unbound
    /\ windows' = Unbound /\ proxies' = Unbound /\ all_elements' = Unbound
    /\ total_elements' = Unbound /\ total_walls' = Unbound
    /\ semantic_elements' = Unbound /\ proxy_elements' = Unbound
    /\ other_semantic' = Unbound /\ semantic_pct' = Unbound
    /\ proxy_pct' = Unbound /\ other_pct' = Unbound
    /\ severity' = Unbound /\ proxy_data' = Unbound
    /\ walls_missing_pset' = Unbound /\ missing_pset_count' = Unbound
    /\ pset_data' = Unbound
    /\ UNCHANGED loginVars

Next ==
    \/ EditName
    \/ SelectRole
    \/ SelectDomain
    \/ SelectPurpose
    \/ Continue
    \/ Upload
    \/ RemoveFile

Spec == Init /\ [][Next]_vars

\* the analysis variables are bound: a file is uploaded
Analysed == uploaded_file # <<>>
\* the uploaded model
Model == uploaded_file[1]
Range(s) == { s[i] : i \in 1..Len(s) }

TypeOK ==
    /\ logged_in \in BOOLEAN
    /\ page \in {"login", "analyzer"}
    /\ Analysed => /\ total_elements \in Nat
                   /\ severity \in {"LOW", "MEDIUM", "HIGH", "CRITICAL"}

\* ---------------------------------------------------------------------
\* Properties
\* ---------------------------------------------------------------------
SeverityLevels == <<"LOW", "MEDIUM", "HIGH", "CRITICAL">>
Rank(level) == CHOOSE i \in 1..4 : SeverityLevels[i] = level

\* C1: with total > 0 the severity is exactly one of the four levels, LOW
\* when proxy_pct <= 10, MEDIUM when 10 < proxy_pct < 20, HIGH when
\* 20 <= proxy_pct < 50, CRITICAL when proxy_pct >= 50 (so 10 is LOW, 20 is
\* HIGH, 50 is CRITICAL), and no larger proxy_pct has a lower severity.
\* proxy_pct is proxy_elements / total_elements * 100, compared here in
\* integers.
C1_SeverityThresholds ==
    (Analysed /\ total_elements > 0) =>
        LET p == proxy_elements * 100
            t == total_elements
        IN  /\ severity \in Range(SeverityLevels)
            /\ (severity = "LOW") <=> (p <= 10 * t)
            /\ (severity = "MEDIUM") <=> (10 * t < p /\ p < 20 * t)
            /\ (severity = "HIGH") <=> (20 * t <= p /\ p < 50 * t)
            /\ (severity = "CRITICAL") <=> (p >= 50 * t)
            /\ \A t2 \in 1..MaxBulk : \A p2 \in 0..t2 :
                  (p2 * t >= proxy_elements * t2)
                      => Rank(Severity(Pct(p2, t2))) >= Rank(severity)

\* a model with exactly 10 % proxies was analysed and graded LOW
C1_Witness ==
    /\ Analysed
    /\ total_elements > 0
    /\ proxy_elements * 100 = 10 * total_elements
    /\ severity = "LOW"

\* C2: semantic + proxy + other_semantic <= total for every analysed model.
C2_SumWithinTotal ==
    Analysed =>
        semantic_elements + proxy_elements + other_semantic <= total_elements

\* C3: total_walls is the number of distinct elements that are walls of
\* either subtype, also when one element is returned by both wall queries.
C3_WallsCountedOnce ==
    Analysed =>
        total_walls = Cardinality(Range(walls) \cup Range(standard_walls))

\* C4: with zero product elements the analysis completes with all three
\* percentages 0 and severity LOW.
C4_EmptyModel ==
    (Analysed /\ total_elements = 0) =>
        /\ semantic_pct.num = 0
        /\ proxy_pct.num = 0
        /\ other_pct.num = 0
        /\ severity = "LOW"

\* a file without any product (it holds an IfcProject only) was analysed
C4_Witness ==
    /\ Analysed
    /\ Len(Model) > 0
    /\ total_elements = 0
    /\ severity = "LOW"

\* the names of the property groups attached to an element
PropertyGroupNames(e) ==
    { d.RelatingPropertyDefinition[1].Name :
        d \in { x \in Range(e.IsDefinedBy) :
                  /\ x.is_a = "IfcRelDefinesByProperties"
                  /\ x.RelatingPropertyDefinition # <<>>
                  /\ x.RelatingPropertyDefinition[1].is_a = "IfcPropertySet" } }

\* C5: a checked wall is reported missing if and only if none of its
\* property-group attachments is named exactly "Pset_WallCommon"; a wall
\* with such an attachment is never reported, a wall without attachments
\* always is, and "pset_wallcommon" does not satisfy the requirement.
C5_MissingIffNoExactName ==
    Analysed =>
        \A w \in Range(walls) :
            /\ (w \in Range(walls_missing_pset))
                  <=> ("Pset_WallCommon" \notin PropertyGroupNames(Model[w]))
            /\ (Model[w].IsDefinedBy = <<>>) => (w \in Range(walls_missing_pset))
            /\ (PropertyGroupNames(Model[w]) = {"pset_wallcommon"})
                  => (w \in Range(walls_missing_pset))

\* one wall whose only group is "pset_wallcommon" is reported and another
\* wall with "Pset_WallCommon" among several attachments is not
C5_Witness ==
    /\ Analysed
    /\ \E w \in Range(walls) :
          /\ PropertyGroupNames(Model[w]) = {"pset_wallcommon"}
          /\ w \in Range(walls_missing_pset)
    /\ \E w \in Range(walls) :
          /\ Len(Model[w].IsDefinedBy) > 1
          /\ "Pset_WallCommon" \in PropertyGroupNames(Model[w])
          /\ w \notin Range(walls_missing_pset)

RECURSIVE IsSubSeq(_, _)
\* s is t with some elements left out
IsSubSeq(s, t) ==
    IF s = <<>> THEN TRUE
    ELSE IF t = <<>> THEN FALSE
    ELSE IF Head(s) = Head(t) THEN IsSubSeq(Tail(s), Tail(t))
    ELSE IsSubSeq(s, Tail(t))

\* C6: the reported walls are a sub-sequence of the checked walls (each a
\* checked wall, none twice, in the order of the input) and the reported
\* count is the length of the reported list.
C6_MissingIsSubSequence ==
    Analysed =>
        /\ IsSubSeq(walls_missing_pset, walls)
        /\ Cardinality(Range(walls_missing_pset)) = Len(walls_missing_pset)
        /\ missing_pset_count = Len(walls_missing_pset)

\* three walls, the second one has the group: count 2, the other two
\* listed in their order
C6_Witness ==
    /\ Analysed
    /\ Len(walls) = 3
    /\ missing_pset_count = 2
    /\ walls_missing_pset = <<walls[1], walls[3]>>

\* the name listed for a Name attribute
Listed(n) == IF n = <<>> \/ n = <<"">> THEN "Unnamed" ELSE n[1]

\* C7: every proxy and every wall reported missing is listed with its
\* identifier and with its name, "Unnamed" standing for an absent or empty
\* name; the listing is produced whatever the names are.
C7_UnnamedListing ==
    Analysed =>
        /\ (proxies # <<>>) =>
              /\ Len(proxy_data) = Len(proxies)
              /\ \A i \in 1..Len(proxies) :
                    /\ proxy_data[i].GlobalId = proxies[i]
                    /\ proxy_data[i].Name = Listed(Model[proxies[i]].Name)
        /\ (missing_pset_count > 0) =>
              /\ Len(pset_data) = Len(walls_missing_pset)
              /\ \A i \in 1..Len(walls_missing_pset) :
                    /\ pset_data[i].GlobalId = walls_missing_pset[i]
                    /\ pset_data[i].WallName
                          = Listed(Model[walls_missing_pset[i]].Name)

\* a proxy with an empty name and a reported wall without a name are both
\* listed as "Unnamed"
C7_Witness ==
    /\ Analysed
    /\ \E i \in 1..Len(proxy_data) :
          /\ Model[proxies[i]].Name = <<"">>
          /\ proxy_data[i].Name = "Unnamed"
    /\ \E i \in 1..Len(pset_data) :
          /\ Model[walls_missing_pset[i]].Name = <<>>
          /\ pset_data[i].WallName = "Unnamed"

\* C8: the session starts with logged_in = False; the analyzer page is
\* reached only with logged_in True; logged_in becomes True only by a
\* Continue press with role, domain and purpose all different from the
\* placeholder; once True it stays True.
C8_LoginGate ==
    /\ ~logged_in
    /\ [](page = "analyzer" => logged_in)
    /\ [](Analysed => logged_in)
    /\ [][logged_in => logged_in']_vars
    /\ [][(~logged_in /\ logged_in') =>
            /\ event' = "continue"
            /\ role # Placeholder
            /\ domain # Placeholder
            /\ purpose # Placeholder]_vars

\* the accepted press has just opened the analyzer page
C8_Witness ==
    /\ logged_in
    /\ event = "continue"
    /\ page = "analyzer"

\* C9: a Continue press with a placeholder left reports the error and
\* leaves logged_in False and user_context as it was; whenever logged_in
\* is True, user_context holds the name, role, domain and purpose of the
\* accepted press, none of the three selections being the placeholder.
C9_ContinueFrame ==
    /\ [][(event' = "continue"
            /\ (role = Placeholder \/ domain = Placeholder
                  \/ purpose = Placeholder)) =>
            /\ error'
            /\ ~logged_in /\ ~logged_in'
            /\ user_context' = user_context]_vars
    /\ [][(~logged_in /\ logged_in') =>
            user_context' = [name |-> name, role |-> role,
                             domain |-> domain, purpose |-> purpose]]_vars
    /\ [][logged_in => user_context' = user_context]_vars
    /\ [](logged_in =>
            /\ DOMAIN user_context = {"name", "role", "domain", "purpose"}
            /\ user_context.role # Placeholder
            /\ user_context.domain # Placeholder
            /\ user_context.purpose # Placeholder)

\* a rejected press: the error is shown and the session state is untouched
C9_Witness ==
    /\ event = "continue"
    /\ error
    /\ ~logged_in
    /\ user_context = EmptyContext
    /\ role # Placeholder

\* C10: every element counted in total_walls that has no attachment named
\* "Pset_WallCommon" is in the missing-walls list, and
\* missing_pset_count <= total_walls.
C10_CountedWallsChecked ==
    Analysed =>
        /\ \A w \in Range(walls) \cup Range(standard_walls) :
              ("Pset_WallCommon" \notin PropertyGroupNames(Model[w]))
                  => (w \in Range(walls_missing_pset))
        /\ missing_pset_count <= total_walls

\* a standard-case wall without the group is reported
C10_Witness ==
    /\ Analysed
    /\ \E w \in Range(standard_walls) :
          /\ Model[w].type = "IfcWallStandardCase"
          /\ w \in Range(walls_missing_pset)

====
